---- MODULE Spec2Model ----
(***************************************************************************)
(* A model of gpt2_jax: the Config dataclass (config.py) and the forward   *)
(* pass of GPT2 with its sub-modules PositionalEncoder,                    *)
(* MultiHeadAttention, FeedForward and TransformerDecoderLayer (model.py). *)
(*                                                                         *)
(* Arrays are modelled by their shapes (a sequence of dimensions); the     *)
(* token input src and the attention mask are modelled element by element. *)
(* A Python exception ends a call: pc = "raised" and exc names it.         *)
(* The class body of Config is read as the dataclass's field table, one    *)
(* default per field.                                                      *)
(***************************************************************************)
EXTENDS Integers, Sequences, FiniteSets, TLC

VARIABLES
  config,               \* the Config instance the modules are built with
  pc,                   \* position in the running call
  call,                 \* the module whose __call__ was entered
  src,                  \* GPT2: token input, src[b][j]
  train,                \* GPT2: the train argument
  return_attn,          \* GPT2: the return_attn argument
  args,                 \* the shapes a directly called sub-module was given
  x,                    \* shape of the running activation x
  decoder_mask,         \* GPT2: decoder_mask[b][1][i][j], <<>> before it is built
  self_attention_list,  \* GPT2: shapes of the collected self-attention matrices
  trace,                \* the stages applied so far, in order
  dropouts,             \* the deterministic flag of every nn.Dropout applied so far
  result,               \* the returned value
  exc                   \* the exception raised, "none" if none

vars == <<config, pc, call, src, train, return_attn, args, x, decoder_mask,
          self_attention_list, trace, dropouts, result, exc>>

(* Bounds of the model *)
MaxBatch == 2
MaxLen == 2
MaxLayers == 2

Max(a, b) == IF a >= b THEN a ELSE b

(***************************************************************************)
(* config.py                                                               *)
(***************************************************************************)

(* The defaults of the dataclass's fields. q_dim and v_dim are evaluated   *)
(* once, in the class body, from the class-body names embed_dim and        *)
(* num_heads. The class declares no field k_dim.                           *)
ConfigDefaults ==
  LET embed_dim == 256
      num_heads == 32
  IN  [vocab_size |-> 8000, unk_id |-> 0, bos_id |-> 1, eos_id |-> 2,
       pad_id |-> 3, max_len |-> 256, embed_dim |-> embed_dim,
       num_heads |-> num_heads, num_layers |-> 14,
       q_dim |-> embed_dim \div num_heads,
       v_dim |-> embed_dim \div num_heads,
       ff_dim |-> 512]

(* The generated __init__: a keyword replaces that field alone. *)
Config(kw) ==
  [f \in DOMAIN ConfigDefaults |->
     IF f \in DOMAIN kw THEN kw[f] ELSE ConfigDefaults[f]]

(* getattr(config, name) exists *)
HasAttr(cfg, name) == name \in DOMAIN cfg

(* Keyword arguments tried on Config(...) *)
OverrideValues ==
  [embed_dim |-> {512, 64}, num_heads |-> {8},
   num_layers |-> 0..MaxLayers, pad_id |-> {1}]

Overrides ==
  UNION { { kw \in [S -> UNION {OverrideValues[f] : f \in DOMAIN OverrideValues}] :
              \A f \in S : kw[f] \in OverrideValues[f] } :
          S \in SUBSET (DOMAIN OverrideValues) }

(***************************************************************************)
(* Inputs                                                                  *)
(***************************************************************************)

(* Token ids fed to the model: <s> and <pad> of the default vocabulary *)
Tokens == {ConfigDefaults.bos_id, ConfigDefaults.pad_id}

Srcs ==
  UNION { [1..B -> [1..L -> Tokens]] : B \in 1..MaxBatch, L \in 1..MaxLen }

Shapes3(F) == { <<b, l, F>> : b \in 1..MaxBatch, l \in 1..MaxLen }

NoResult == [kind |-> "none", items |-> <<>>]

(***************************************************************************)
(* Array primitives, by shape                                              *)
(***************************************************************************)

RECURSIVE Size(_)
(* number of elements of an array of shape s *)
Size(s) == IF s = <<>> THEN 1 ELSE Head(s) * Size(Tail(s))

(* nn.Dense(features)(a): the last axis becomes features *)
Dense(features, a) == [a EXCEPT ![Len(a)] = features]

(* a.reshape(-1, d2, d3, ...) is possible: the size divides *)
CanReshape(a, rest) == Size(rest) # 0 /\ Size(a) % Size(rest) = 0

(* a.reshape(-1, d2, d3, ...): the leading axis is inferred *)
Reshape(a, rest) == <<Size(a) \div Size(rest)>> \o rest

(* numpy broadcasting of one axis *)
Broadcastable(m, n) == m = n \/ m = 1 \/ n = 1

(* two shapes of the same rank broadcast against each other *)
CanBroadcast(a, b) ==
  Len(a) = Len(b) /\ \A d \in 1..Len(a) : Broadcastable(a[d], b[d])

(* numpy broadcasting of two shapes of the same rank *)
BroadcastShapes(a, b) == [d \in 1..Len(a) |-> Max(a[d], b[d])]

(* pe.at[:, :, start::2].set(values): values must broadcast to the slice *)
SetBroadcastable(valueCols, sliceCols) == valueCols = sliceCols \/ valueCols = 1

Raised(e) == [exc |-> e, out |-> <<>>, attention |-> <<>>,
              src_trg_attention |-> <<>>, stages |-> <<>>, drops |-> <<>>]

(***************************************************************************)
(* Attention masks (flax.linen.make_attention_mask, make_causal_mask,      *)
(* combine_masks as GPT2 calls them), element by element                   *)
(***************************************************************************)

(* jnp.ones_like(src) *)
OnesLike(a) == [b \in DOMAIN a |-> [i \in DOMAIN a[b] |-> 1]]

(* src != pad_id, promoted to the integer dtype of the product *)
NotEqual(a, id) == [b \in DOMAIN a |-> [j \in DOMAIN a[b] |-> IF a[b][j] # id THEN 1 ELSE 0]]

(* jnp.multiply and jnp.greater_equal on a pair of elements *)
Multiply(q, k) == q * k
GreaterEqual(q, k) == IF q >= k THEN 1 ELSE 0

(* pairwise_fn(q, k) for the pairwise_fn named fn *)
Pairwise(fn, q, k) ==
  CASE fn = "multiply" -> Multiply(q, k)
    [] fn = "greater_equal" -> GreaterEqual(q, k)

(* make_attention_mask(query_input, key_input, pairwise_fn, dtype=bool):
   pairwise_fn(query[..., None], key[..., None, :]), one head axis inserted
   at -3, cast to bool *)
MakeAttentionMask(query_input, key_input, pairwise_fn) ==
  [b \in DOMAIN query_input |->
    <<[i \in DOMAIN query_input[b] |->
        [j \in DOMAIN key_input[b] |->
           Pairwise(pairwise_fn, query_input[b][i], key_input[b][j]) # 0]]>>]

(* make_causal_mask(x): idxs = broadcast_to(arange(len), x.shape);
   make_attention_mask(idxs, idxs, jnp.greater_equal) *)
MakeCausalMask(a) ==
  LET idxs == [b \in DOMAIN a |-> [i \in DOMAIN a[b] |-> i - 1]]
  IN  MakeAttentionMask(idxs, idxs, "greater_equal")

(* combine_masks(m1, m2): logical_and *)
CombineMasks(m1, m2) ==
  [b \in DOMAIN m1 |-> [h \in DOMAIN m1[b] |-> [i \in DOMAIN m1[b][h] |->
     [j \in DOMAIN m1[b][h][i] |-> m1[b][h][i][j] /\ m2[b][h][i][j]]]]]

(* A decoder mask whose padding part also masks padded queries *)
DecoderMaskPaddedQueries(cfg, s) ==
  CombineMasks(MakeAttentionMask(NotEqual(s, cfg.pad_id), NotEqual(s, cfg.pad_id), "multiply"),
               MakeCausalMask(s))

(* The decoder mask of GPT2.__call__ *)
DecoderMask(cfg, s) ==
  CombineMasks(MakeAttentionMask(OnesLike(s), NotEqual(s, cfg.pad_id), "multiply"),
               MakeCausalMask(s))

(* m.shape of a 4-D mask *)
Shape4(m) == <<Len(m), Len(m[1]), Len(m[1][1]), Len(m[1][1][1])>>

(* s.shape of a 2-D token array *)
Shape2(s) == <<Len(s), Len(s[1])>>

(***************************************************************************)
(* model.py: the sub-modules as functions of shapes                        *)
(***************************************************************************)

(* PositionalEncoder.__call__ *)
PositionalEncoder(cfg, a) ==
  IF Len(a) # 3 THEN Raised("AssertionError")
  ELSE
    LET E       == cfg.embed_dim
        radians == (E + 1) \div 2      \* len(arange(0, E, 2))
        evens   == (E + 1) \div 2      \* columns of pe[:, :, 0::2]
        odds    == E \div 2            \* columns of pe[:, :, 1::2]
        pe      == <<a[1], a[2], E>>
    IN  IF ~SetBroadcastable(radians, evens) \/ ~SetBroadcastable(radians, odds)
        THEN Raised("ValueError")
        ELSE IF ~CanBroadcast(a, pe) THEN Raised("ValueError")
        ELSE [Raised("none") EXCEPT !.out = BroadcastShapes(a, pe)]

(* FeedForward.__call__ *)
FeedForward(cfg, a, deterministic) ==
  IF Len(a) # 3 THEN Raised("AssertionError")
  ELSE
    LET h   == Dense(cfg.ff_dim, a)          \* Dense, relu, Dropout
        out == Dense(cfg.embed_dim, h)       \* Dense, Dropout
    IN  [Raised("none") EXCEPT !.out = out,
                               !.drops = <<deterministic, deterministic>>]

(* MultiHeadAttention.__call__; mask is a shape, <<>> for None *)
MultiHeadAttention(cfg, q, k, v, mask) ==
  IF \/ Len(q) # 3 \/ Len(k) # 3 \/ Len(v) # 3
     \/ ~(q[1] = k[1] /\ k[1] = v[1])
     \/ k[2] # v[2]
     \/ (mask # <<>> /\ Len(mask) # 4)
  THEN Raised("AssertionError")
  ELSE IF ~HasAttr(cfg, "k_dim") THEN Raised("AttributeError")
  ELSE
    LET q_seq_len == q[2]
        k_seq_len == k[2]
        qd == Dense(cfg.num_heads * cfg.k_dim, q)
        kd == Dense(cfg.num_heads * cfg.k_dim, k)
        vd == Dense(cfg.num_heads * cfg.v_dim, v)
        qshape == <<q_seq_len, cfg.num_heads, cfg.k_dim>>
        kshape == <<k_seq_len, cfg.num_heads, cfg.k_dim>>
        vshape == <<k_seq_len, cfg.num_heads, cfg.v_dim>>
        qr == Reshape(qd, qshape)
        kr == Reshape(kd, kshape)
        vr == Reshape(vd, vshape)
    IN  IF ~CanReshape(qd, qshape) \/ ~CanReshape(kd, kshape) \/ ~CanReshape(vd, vshape)
        THEN Raised("TypeError")
        ELSE IF ~Broadcastable(qr[1], kr[1]) THEN Raised("ValueError")
        ELSE
          LET scores == <<Max(qr[1], kr[1]), cfg.num_heads, q_seq_len, k_seq_len>>
              attention == IF mask = <<>> THEN scores ELSE BroadcastShapes(mask, scores)
          IN  IF mask # <<>> /\ ~CanBroadcast(mask, scores) THEN Raised("ValueError")
              ELSE IF ~Broadcastable(attention[1], vr[1]) THEN Raised("ValueError")
              ELSE
                LET values == <<Max(attention[1], vr[1]), q_seq_len,
                                cfg.num_heads, cfg.v_dim>>
                    mshape == <<q_seq_len, cfg.num_heads * cfg.v_dim>>
                    merged == Reshape(values, mshape)
                IN  IF ~CanReshape(values, mshape) THEN Raised("TypeError")
                    ELSE [Raised("none") EXCEPT
                            !.out = Dense(cfg.embed_dim, merged),
                            !.attention = attention]

(* An attention sub-layer of TransformerDecoderLayer.__call__, given the value
   r its MultiHeadAttention returned: Dropout, then LayerNorm(res + x).
   stages and drops record what ran before an exception. *)
AttentionSubLayer(st, r, deterministic, name, field) ==
  IF r.exc # "none" THEN [st EXCEPT !.exc = r.exc]
  ELSE IF ~CanBroadcast(st.out, r.out)
  THEN [st EXCEPT !.exc = "ValueError",
                  !.stages = Append(@, name),
                  !.drops = Append(@, deterministic)]
  ELSE [st EXCEPT !.out = BroadcastShapes(st.out, r.out),
                  ![field] = r.attention,
                  !.stages = @ \o <<name, "add_norm">>,
                  !.drops = Append(@, deterministic)]

(* res = x; x, self_attention = MultiHeadAttention(config)(x, x, x, mask=decoder_mask);
   Dropout; Add & Norm *)
SelfAttentionSubLayer(cfg, st, dmask, deterministic) ==
  AttentionSubLayer(st, MultiHeadAttention(cfg, st.out, st.out, st.out, dmask),
                    deterministic, "self_attention", "attention")

(* res = x; x, src_trg_attention = MultiHeadAttention(config)(x, memory, memory,
   mask=encoder_decoder_mask); Dropout; Add & Norm *)
SourceTargetAttentionSubLayer(cfg, st, memory, edmask, deterministic) ==
  IF st.exc # "none" THEN st
  ELSE AttentionSubLayer(st, MultiHeadAttention(cfg, st.out, memory, memory, edmask),
                         deterministic, "src_trg_attention", "src_trg_attention")

(* The feed-forward sub-layer, given the value r its FeedForward returned *)
FeedForwardResult(st, r) ==
  IF r.exc # "none" THEN [st EXCEPT !.exc = r.exc]
  ELSE IF ~CanBroadcast(st.out, r.out)
  THEN [st EXCEPT !.exc = "ValueError",
                  !.stages = Append(@, "feed_forward"),
                  !.drops = @ \o r.drops]
  ELSE [st EXCEPT !.out = BroadcastShapes(st.out, r.out),
                  !.stages = @ \o <<"feed_forward", "add_norm">>,
                  !.drops = @ \o r.drops]

(* res = x; x = FeedForward(config)(x, deterministic); Add & Norm *)
FeedForwardSubLayer(cfg, st, deterministic) ==
  IF st.exc # "none" THEN st
  ELSE FeedForwardResult(st, FeedForward(cfg, st.out, deterministic))

(* TransformerDecoderLayer.__call__: its three sub-layers in source order *)
TransformerDecoderLayer(cfg, a, memory, dmask, edmask, deterministic) ==
  IF Len(a) # 3 \/ Len(memory) # 3 \/ Len(dmask) # 4 \/ Len(edmask) # 4
  THEN Raised("AssertionError")
  ELSE FeedForwardSubLayer(cfg,
         SourceTargetAttentionSubLayer(cfg,
           SelfAttentionSubLayer(cfg, [Raised("none") EXCEPT !.out = a],
                                 dmask, deterministic),
           memory, edmask, deterministic),
         deterministic)

(* The parameters TransformerDecoderLayer.__call__ requires (none has a
   default) and the number of values it returns *)
LayerParams == <<"x", "memory", "decoder_mask", "encoder_decoder_mask", "deterministic">>
LayerReturns == <<"x", "self_attention", "src_trg_attention">>

(***************************************************************************)
(* model.py: GPT2.__call__, statement by statement                         *)
(***************************************************************************)

Finished == pc \in {"done", "raised"}

Init ==
  /\ config = Config([f \in {} |-> 0])
  /\ pc = "idle"
  /\ call = "none"
  /\ src = <<>>
  /\ train = FALSE
  /\ return_attn = FALSE
  /\ args = <<>>
  /\ x = <<>>
  /\ decoder_mask = <<>>
  /\ self_attention_list = <<>>
  /\ trace = <<>>
  /\ dropouts = <<>>
  /\ result = NoResult
  /\ exc = "none"

(* config = Config(...) with keyword arguments kw *)
ConfigInit ==
  /\ pc = "idle"
  /\ \E kw \in Overrides : config' = Config(kw)
  /\ UNCHANGED <<pc, call, src, train, return_attn, args, x, decoder_mask,
                 self_attention_list, trace, dropouts, result, exc>>

(* GPT2(config)(src, train, return_attn) is entered; src.ndim == 2 holds of
   every src drawn here *)
GPT2Call ==
  /\ pc = "idle"
  /\ \E s \in Srcs, t \in BOOLEAN, r \in BOOLEAN :
       /\ src' = s
       /\ train' = t
       /\ return_attn' = r
  /\ call' = "GPT2"
  /\ pc' = "mask"
  /\ UNCHANGED <<config, args, x, decoder_mask, self_attention_list, trace,
                 dropouts, result, exc>>

(* decoder_mask = nn.combine_masks(...) *)
GPT2Mask ==
  /\ call = "GPT2" /\ pc = "mask"
  /\ decoder_mask' = DecoderMask(config, src)
  /\ pc' = "embed"
  /\ UNCHANGED <<config, call, src, train, return_attn, args, x,
                 self_attention_list, trace, dropouts, result, exc>>

(* x = nn.Embed(vocab_size, embed_dim)(src) *)
GPT2Embed ==
  /\ call = "GPT2" /\ pc = "embed"
  /\ x' = Shape2(src) \o <<config.embed_dim>>
  /\ trace' = Append(trace, "embedding")
  /\ pc' = "posenc"
  /\ UNCHANGED <<config, call, src, train, return_attn, args, decoder_mask,
                 self_attention_list, dropouts, result, exc>>

(* x = PositionalEncoder(config)(x) *)
GPT2PositionalEncoder ==
  /\ call = "GPT2" /\ pc = "posenc"
  /\ LET r == PositionalEncoder(config, x)
     IN  IF r.exc # "none"
         THEN /\ pc' = "raised"
              /\ exc' = r.exc
              /\ UNCHANGED <<x, trace>>
         ELSE /\ pc' = "layers"
              /\ x' = r.out
              /\ trace' = Append(trace, "positional_encoding")
              /\ UNCHANGED exc
  /\ UNCHANGED <<config, call, src, train, return_attn, args, decoder_mask,
                 self_attention_list, dropouts, result>>

(* The value the layer call returned, unpacked into two names: the layer's
   return value has Len(LayerReturns) items *)
UnpackTwo(r) ==
  IF r.exc = "none" /\ Len(LayerReturns) # 2
  THEN [r EXCEPT !.exc = "ValueError"]
  ELSE r

(* x, self_attention = layer(x, decoder_mask, not train): the positional
   arguments are bound to the layer's parameters, the layer runs, and its
   return value is unpacked *)
LayerStep(cfg, a, mask, tr) ==
  LET positional == <<a, Shape4(mask), ~tr>>
  IN  IF Len(positional) # Len(LayerParams)
      THEN Raised("TypeError")
      ELSE UnpackTwo(TransformerDecoderLayer(cfg, positional[1], positional[2],
                       positional[3], positional[4], positional[5]))

(* The effect of one loop iteration whose layer call came to r *)
LayerEffect(r) ==
  /\ trace' = trace \o r.stages
  /\ dropouts' = dropouts \o r.drops
  /\ IF r.exc # "none"
     THEN /\ pc' = "raised"
          /\ exc' = r.exc
          /\ UNCHANGED <<x, self_attention_list>>
     ELSE /\ x' = r.out
          /\ self_attention_list' = Append(self_attention_list, r.attention)
          /\ UNCHANGED <<pc, exc>>

GPT2Layer ==
  /\ call = "GPT2" /\ pc = "layers"
  /\ Len(self_attention_list) < config.num_layers
  /\ LayerEffect(LayerStep(config, x, decoder_mask, train))
  /\ UNCHANGED <<config, call, src, train, return_attn, args, decoder_mask, result>>

(* the loop is exhausted; x = nn.LayerNorm()(x) *)
GPT2LayerNorm ==
  /\ call = "GPT2" /\ pc = "layers"
  /\ Len(self_attention_list) >= config.num_layers
  /\ trace' = Append(trace, "layer_norm")
  /\ pc' = "logits"
  /\ UNCHANGED <<config, call, src, train, return_attn, args, x, decoder_mask,
                 self_attention_list, dropouts, result, exc>>

(* logits = nn.Dense(vocab_size)(x) *)
GPT2Logits ==
  /\ call = "GPT2" /\ pc = "logits"
  /\ x' = Dense(config.vocab_size, x)
  /\ trace' = Append(trace, "vocab_projection")
  /\ pc' = "return"
  /\ UNCHANGED <<config, call, src, train, return_attn, args, decoder_mask,
                 self_attention_list, dropouts, result, exc>>

(* if return_attn: return logits, self_attention_list; return logits *)
GPT2Return ==
  /\ call = "GPT2" /\ pc = "return"
  /\ result' = IF return_attn
               THEN [kind |-> "tuple", items |-> <<x, self_attention_list>>]
               ELSE [kind |-> "array", items |-> <<x>>]
  /\ pc' = "done"
  /\ UNCHANGED <<config, call, src, train, return_attn, args, x, decoder_mask,
                 self_attention_list, trace, dropouts, exc>>

(***************************************************************************)
(* The sub-modules called on their own                                     *)
(***************************************************************************)

(* A directly called module came to r; items is what it returns *)
CallEffect(r, items) ==
  /\ exc' = r.exc
  /\ pc' = IF r.exc = "none" THEN "done" ELSE "raised"
  /\ trace' = r.stages
  /\ dropouts' = r.drops
  /\ result' = IF r.exc = "none" THEN items ELSE NoResult

MHAReturn(r) == [kind |-> "tuple", items |-> <<r.out, r.attention>>]
FFReturn(r) == [kind |-> "array", items |-> <<r.out>>]
LayerReturn(r) ==
  [kind |-> "tuple", items |-> <<r.out, r.attention, r.src_trg_attention>>]

(* The mask argument for queries q and keys k: a mask of shape
   [batch, 1, query_length, key_length], or None *)
MaskArg(q, k, masked) == IF masked THEN <<q[1], 1, q[2], k[2]>> ELSE <<>>

(* MultiHeadAttention(config)(q, k, v, mask) *)
MHAEffect(r) == CallEffect(r, MHAReturn(r))

CallMultiHeadAttention ==
  /\ pc = "idle"
  /\ \E q \in Shapes3(config.embed_dim), k \in Shapes3(config.embed_dim),
        v \in Shapes3(config.embed_dim), masked \in BOOLEAN :
       /\ args' = <<q, k, v, MaskArg(q, k, masked)>>
       /\ MHAEffect(MultiHeadAttention(config, q, k, v, MaskArg(q, k, masked)))
  /\ call' = "MultiHeadAttention"
  /\ UNCHANGED <<config, src, train, return_attn, x, decoder_mask,
                 self_attention_list>>

(* FeedForward(config)(x, deterministic) *)
FFEffect(r) == CallEffect(r, FFReturn(r))

CallFeedForward ==
  /\ pc = "idle"
  /\ \E a \in Shapes3(config.embed_dim), deterministic \in BOOLEAN :
       /\ args' = <<a, deterministic>>
       /\ FFEffect(FeedForward(config, a, deterministic))
  /\ call' = "FeedForward"
  /\ UNCHANGED <<config, src, train, return_attn, x, decoder_mask,
                 self_attention_list>>

(* TransformerDecoderLayer(config)(x, memory, decoder_mask,
   encoder_decoder_mask, deterministic) *)
LayerCallEffect(r) == CallEffect(r, LayerReturn(r))

CallTransformerDecoderLayer ==
  /\ pc = "idle"
  /\ \E a \in Shapes3(config.embed_dim), memory \in Shapes3(config.embed_dim),
        deterministic \in BOOLEAN :
       /\ args' = <<a, memory, MaskArg(a, a, TRUE), MaskArg(a, memory, TRUE),
                    deterministic>>
       /\ LayerCallEffect(TransformerDecoderLayer(config, a, memory,
             MaskArg(a, a, TRUE), MaskArg(a, memory, TRUE), deterministic))
  /\ call' = "TransformerDecoderLayer"
  /\ UNCHANGED <<config, src, train, return_attn, x, decoder_mask,
                 self_attention_list>>

(* The call is over (returned or raised); the next one starts afresh *)
Reset ==
  /\ Finished
  /\ pc' = "idle"
  /\ call' = "none"
  /\ src' = <<>>
  /\ train' = FALSE
  /\ return_attn' = FALSE
  /\ args' = <<>>
  /\ x' = <<>>
  /\ decoder_mask' = <<>>
  /\ self_attention_list' = <<>>
  /\ trace' = <<>>
  /\ dropouts' = <<>>
  /\ result' = NoResult
  /\ exc' = "none"
  /\ UNCHANGED config

Next ==
  \/ ConfigInit
  \/ GPT2Call
  \/ GPT2Mask
  \/ GPT2Embed
  \/ GPT2PositionalEncoder
  \/ GPT2Layer
  \/ GPT2LayerNorm
  \/ GPT2Logits
  \/ GPT2Return
  \/ CallMultiHeadAttention
  \/ CallFeedForward
  \/ CallTransformerDecoderLayer
  \/ Reset

Spec == Init /\ [][Next]_vars

(***************************************************************************)
(* Properties                                                              *)
(***************************************************************************)

GPT2Finished == call = "GPT2" /\ Finished

BatchOf(s) == Len(s)
LenOf(s) == Len(s[1])

RECURSIVE Repeat(_, _)
Repeat(seq, n) == IF n = 0 THEN <<>> ELSE seq \o Repeat(seq, n - 1)

(* The stage order the documentation gives for num_layers = n *)
DocumentedStages(n) ==
  <<"embedding", "positional_encoding">>
  \o Repeat(<<"self_attention", "add_norm", "feed_forward", "add_norm">>, n)
  \o <<"layer_norm", "vocab_projection">>

(* C1: one call of GPT2 with num_layers = N applies embedding, positional
   encoding, N repetitions of [masked self-attention, add-and-norm,
   feed-forward, add-and-norm], the final layer-norm and the vocabulary
   projection, in this order and nothing else. *)
C1_StageOrder ==
  GPT2Finished => trace = DocumentedStages(config.num_layers)

(* The decoder mask has been built by the running GPT2 call *)
MaskBuilt == call = "GPT2" /\ pc \notin {"idle", "mask"}

(* C2: the decoder mask has shape [batch, 1, len, len] and mask[b,0,i,j] is
   true exactly when j <= i and src[b,j] is not the pad id, whatever the
   query token src[b,i] is. *)
C2_DecoderMask ==
  MaskBuilt =>
    /\ Shape4(decoder_mask) = <<BatchOf(src), 1, LenOf(src), LenOf(src)>>
    /\ \A b \in 1..BatchOf(src) : \A i \in 1..LenOf(src) : \A j \in 1..LenOf(src) :
         decoder_mask[b][1][i][j] <=> (j <= i /\ src[b][j] # config.pad_id)

(* C2 witness: a mask built from a src whose query token at i is padding while
   an earlier key j is not, so that the entry [i, j] is true, and whose
   padding key at a causal position is masked out. *)
C2_Witness ==
  /\ MaskBuilt
  /\ \E b \in 1..BatchOf(src) : \E i \in 1..LenOf(src) : \E j \in 1..LenOf(src) :
       /\ j < i
       /\ src[b][i] = config.pad_id
       /\ src[b][j] # config.pad_id
       /\ decoder_mask[b][1][i][j]
       /\ ~decoder_mask[b][1][i][i]

(* C3: a call of GPT2 completes without raising and returns logits of shape
   [batch_size, src_length, vocab_size]. *)
C3_ReturnsLogits ==
  GPT2Finished =>
    /\ exc = "none"
    /\ result.kind \in {"array", "tuple"}
    /\ result.items[1] = <<BatchOf(src), LenOf(src), config.vocab_size>>

(* C4: with return_attn the call returns the logits and a list of exactly
   num_layers self-attention matrices, one per decoder layer in order;
   without it, the logits alone. *)
C4_ReturnAttn ==
  GPT2Finished =>
    IF return_attn
    THEN /\ result.kind = "tuple"
         /\ Len(result.items) = 2
         /\ Len(result.items[2]) = config.num_layers
         /\ \A n \in 1..config.num_layers :
              result.items[2][n] =
                <<BatchOf(src), config.num_heads, LenOf(src), LenOf(src)>>
    ELSE result.kind = "array"

(* The entry assertions of MultiHeadAttention pass on q, k, v, mask *)
EntryAssertionsPass(q, k, v, mask) ==
  /\ Len(q) = 3 /\ Len(k) = 3 /\ Len(v) = 3
  /\ q[1] = k[1] /\ k[1] = v[1]
  /\ k[2] = v[2]
  /\ (mask # <<>> => Len(mask) = 4)

(* C5: for q, k, v passing the entry assertions, MultiHeadAttention returns
   an output of shape [batch, query_length, features] and an attention
   matrix of shape [batch, num_heads, query_length, kv_length]. *)
C5_AttentionShapes ==
  (/\ call = "MultiHeadAttention"
   /\ Finished
   /\ EntryAssertionsPass(args[1], args[2], args[3], args[4]))
  => /\ exc = "none"
     /\ result.kind = "tuple"
     /\ result.items = << args[1],
                          <<args[1][1], config.num_heads, args[1][2], args[2][2]>> >>

(* C6: a GPT2 call reaches, in each of its decoder layers, the dropouts after
   the attentions and the two of the feed-forward block, and every one of
   them receives deterministic = not train. *)
C6_DropoutFlags ==
  GPT2Finished =>
    /\ Len(dropouts) >= 3 * config.num_layers
    /\ \A n \in 1..Len(dropouts) : dropouts[n] = ~train

(* C7: in every Config instance num_heads * v_dim = embed_dim and
   q_dim = v_dim = embed_dim // num_heads. *)
C7_HeadDims ==
  /\ config.num_heads * config.v_dim = config.embed_dim
  /\ config.q_dim = config.v_dim
  /\ config.v_dim = config.embed_dim \div config.num_heads

====
